---- MODULE Spec2Model ----
(***************************************************************************)
(* Model of the pulse-backend monitoring engine (src/src/index.ts):        *)
(* the config poller, the job reconciler (setupMonitoringJobs), the        *)
(* per-website tick (monitorWebsite), the alert handling and the uptime    *)
(* aggregation job (calculateUptime).  Every await of the source is one    *)
(* atomic step; synchronous code between two awaits is part of the step.   *)
(***************************************************************************)
EXTENDS Integers, Sequences, FiniteSets, TLC

VARIABLES
  db,          \* the store's configuration: projects, settings, websites
  dbChanges,   \* number of external configuration writes so far
  websites,    \* index.ts:11   the held snapshot
  activeJobs,  \* index.ts:14   Map<jobKey, CronJob>, as jobKey -> index in jobs
  jobs,        \* every CronJob ever constructed: closure, key and running flag
  alive,       \* FALSE once an unhandled rejection has ended the process
  mainPc,      \* position of main(): "fetch", "apply", "done", "failed"
  mainResp,    \* main()'s response between its await and its continuation
  polls,       \* responses of poll ticks that are past their await, not yet applied
  pollCount,   \* number of poll ticks fired so far
  recon,       \* history of the last two reconciliations (for the claims)
  ticks,       \* every tick fired so far: its closure, position and what it did
  checks,      \* the Check table
  metrics,     \* the PerformanceMetric table
  alerts,      \* the Alert table
  emails,      \* notifications dispatched, per website
  lastProbe,   \* per website, the probe outcome of the tick that ended last
  faults,      \* collaborator calls that have failed so far
  faultBudget, \* how many collaborator calls may fail in this behaviour
  now,         \* the clock, in units of ten minutes
  agg,         \* the run of calculateUptime(): position and locals
  uptimeLogs,  \* the UptimeLog table
  calc,        \* the rows of one window and the summary computed from them
  timer        \* one CronJob on the wall clock: its schedule and its firings

schedVars == <<websites, activeJobs, jobs, mainPc, mainResp, polls, pollCount, recon>>
tickVars == <<ticks, checks, metrics, alerts, emails, faults, lastProbe>>

aggVars == <<agg, uptimeLogs>>

vars == <<db, dbChanges, alive, schedVars, tickVars, faultBudget, now, aggVars, calc, timer>>

----------------------------------------------------------------------------
(* Bounds of the model *)

MaxDbChanges == 1
MaxPolls == 2
MaxTicks == 3
MaxInFlight == 2
MaxFaults == 1
MaxTime == 2
MaxAggRuns == 1
MaxRows == 4
MaxClock == 250
MaxStep == 120
MaxAlerts == 1

----------------------------------------------------------------------------
(* The configuration store *)

\* Projects in the order prisma.project.findMany returns them.
ProjectOrder == <<"p1", "p2">>
ProjectIds == {ProjectOrder[i] : i \in 1..Len(ProjectOrder)}

\* Websites of each project, in the order the include returns them.
SitesOf(p) == IF p = "p1" THEN <<"w1">> ELSE <<"w2">>
WebsiteIds == {"w1", "w2"}
ProjectOf(w) == IF w = "w1" THEN "p1" ELSE "p2"

\* A website has a URL, or was not created yet, or was deleted (its id is not
\* used again).
Urls == {"http://a", "http://b"}
Absent == "absent"
Deleted == "deleted"
NoRow(u) == u = Absent \/ u = Deleted

\* project.Setting?.interval of a project without a Setting record.
Undefined == -1
Intervals == {60, 120}

NoSetting == [present |-> FALSE, status |-> TRUE, interval |-> Undefined]
SettingValues ==
  {NoSetting} \cup
  {[present |-> TRUE, status |-> s, interval |-> i] : s \in BOOLEAN, i \in Intervals}

ProjectStatuses == {"new", "online"}

\* The Website rows of project p.
WebsiteRows(d, p) ==
  LET s == SitesOf(p)
      F[i \in 0..Len(s)] ==
        IF i = 0 THEN <<>>
        ELSE IF NoRow(d[p].url) THEN F[i - 1]
             ELSE Append(F[i - 1], [id |-> s[i], url |-> d[p].url])
  IN F[Len(s)]

\* findAllWebsites(): every project with its Website rows and its Setting.
findAllWebsites(d) ==
  [i \in 1..Len(ProjectOrder) |->
     [id |-> ProjectOrder[i],
      status |-> d[ProjectOrder[i]].status,
      Setting |-> d[ProjectOrder[i]].Setting,
      Website |-> WebsiteRows(d, ProjectOrder[i])]]

----------------------------------------------------------------------------
(* checkWebsites and setupMonitoringJobs *)

\* project.Setting?.status !== false
SettingNotDisabled(project) ==
  ~(project.Setting.present /\ project.Setting.status = FALSE)

\* checkWebsites: the filtered and mapped websitesToMonitor.
websitesToMonitor(snapshot) ==
  LET websiteExists == SelectSeq(snapshot, LAMBDA project : Len(project.Website) > 0)
      kept == SelectSeq(websiteExists, SettingNotDisabled)
  IN [i \in 1..Len(kept) |->
        [projectId |-> kept[i].id,
         interval |-> kept[i].Setting.interval,
         websites |-> kept[i].Website]]

\* Number -> string as a template literal prints it.
NumberToString(n) == IF n = Undefined THEN "undefined" ELSE ToString(n)

\* `${website.id}-${website.url}-${project.interval}`
jobKey(website, project) ==
  website.id \o "-" \o website.url \o "-" \o NumberToString(project.interval)

\* The switch on project.interval: the cron expression of a target.
NaN == "NaN"
cronExpression(interval) ==
  CASE interval = 30 -> "*/30 * * * * *"
    [] interval = 60 -> "0 * * * * *"
    [] interval = 300 -> "0 */5 * * * *"
    [] interval = 600 -> "0 */10 * * * *"
    [] interval = 900 -> "0 */15 * * * *"
    [] OTHER ->
         LET minutes == IF interval = Undefined THEN NaN ELSE ToString(interval \div 60)
         IN "0 */" \o minutes \o " * * * *"

\* new cron.CronJob(cronExpression, ...) throws on a field it cannot parse.
CronJobThrows(expr) == expr = "0 */" \o NaN \o " * * * *"

\* The (website, project) pairs in the order the nested forEach visits them.
Targets(wtm) ==
  LET F[i \in 0..Len(wtm)] ==
        IF i = 0 THEN <<>>
        ELSE F[i - 1] \o
             [j \in 1..Len(wtm[i].websites) |->
                [website |-> wtm[i].websites[j],
                 project |-> [projectId |-> wtm[i].projectId,
                              interval |-> wtm[i].interval]]]
  IN F[Len(wtm)]

\* A reconciler that forgets the activeJobs.has(jobKey) test.
hasJobNever(aj, key) == FALSE

\* activeJobs.has(jobKey)
hasJob(aj, key) == key \in DOMAIN aj

\* The first loop of setupMonitoringJobs over targets i..Len(targets); st holds
\* activeJobs, the jobs constructed so far, newJobKeys and whether it threw.
RECURSIVE AddJobs(_, _, _)
AddJobs(targets, i, st) ==
  IF i > Len(targets) THEN st
  ELSE LET t == targets[i]
           key == jobKey(t.website, t.project)
           keys == st.newJobKeys \cup {key}
       IN IF hasJob(st.activeJobs, key)
          THEN AddJobs(targets, i + 1, [st EXCEPT !.newJobKeys = keys])
          ELSE IF CronJobThrows(cronExpression(t.project.interval))
          THEN [st EXCEPT !.newJobKeys = keys, !.threw = TRUE]
          ELSE LET job == [key |-> key, website |-> t.website, project |-> t.project,
                           cron |-> cronExpression(t.project.interval),
                           running |-> TRUE]
                   js == Append(st.jobs, job)
               IN AddJobs(targets, i + 1,
                          [st EXCEPT !.newJobKeys = keys,
                                     !.jobs = js,
                                     !.activeJobs = [k \in DOMAIN st.activeJobs \cup {key} |->
                                                      IF k = key THEN Len(js)
                                                      ELSE st.activeJobs[k]]])

\* A second loop that deletes the entries and forgets job.stop().
RemoveJobsLeak(st) ==
  [st EXCEPT
     !.activeJobs = [k \in DOMAIN st.activeJobs \cap st.newJobKeys |-> st.activeJobs[k]]]

\* The second loop: stop and delete every job whose key is not in newJobKeys.
RemoveJobs(st) ==
  LET gone == DOMAIN st.activeJobs \ st.newJobKeys
  IN [st EXCEPT
        !.jobs = [n \in 1..Len(st.jobs) |->
                    IF \E k \in gone : st.activeJobs[k] = n
                    THEN [st.jobs[n] EXCEPT !.running = FALSE]
                    ELSE st.jobs[n]],
        !.activeJobs = [k \in DOMAIN st.activeJobs \cap st.newJobKeys |-> st.activeJobs[k]]]

\* setupMonitoringJobs(websitesToMonitor): an exception of the first loop leaves
\* the function before the second loop runs.
setupMonitoringJobs(wtm, aj, js) ==
  LET added == AddJobs(Targets(wtm), 1,
                       [activeJobs |-> aj, jobs |-> js, newJobKeys |-> {}, threw |-> FALSE])
  IN IF added.threw THEN added ELSE RemoveJobs(added)

\* checkWebsites() on the held snapshot.
checkWebsites(snapshot, aj, js) ==
  setupMonitoringJobs(websitesToMonitor(snapshot), aj, js)

\* The job keys of the eligible targets of a snapshot.
DesiredKeys(snapshot) ==
  LET ts == Targets(websitesToMonitor(snapshot))
  IN {jobKey(ts[i].website, ts[i].project) : i \in 1..Len(ts)}

\* One call of checkWebsites as a step: the table and the jobs after it, and the
\* record of this call and of the one before it.  The rejected promise of a
\* throwing call is handled nowhere: the runtime either only warns or exits.
Reconcile(snapshot) ==
  LET r == checkWebsites(snapshot, activeJobs, jobs)
  IN /\ activeJobs' = r.activeJobs
     /\ jobs' = r.jobs
     /\ recon' = [n |-> recon.n + 1,
                  snapshot |-> snapshot,
                  threw |-> r.threw,
                  before |-> activeJobs,
                  jobsBefore |-> jobs,
                  prevSnapshot |-> recon.snapshot,
                  prevThrew |-> recon.threw]
     /\ IF r.threw THEN alive' \in BOOLEAN ELSE alive' = alive

----------------------------------------------------------------------------
(* External writes to the configuration store *)

DbWrite(p, row) ==
  /\ dbChanges < MaxDbChanges
  /\ row # db[p]
  /\ db' = [db EXCEPT ![p] = row]
  /\ dbChanges' = dbChanges + 1
  /\ UNCHANGED <<alive, schedVars, tickVars, faultBudget, now, aggVars, calc, timer>>

\* A Setting record is created, updated or removed.
SetSetting ==
  \E p \in ProjectIds, s \in SettingValues : DbWrite(p, [db[p] EXCEPT !.Setting = s])

\* A website is added, removed or given another URL.
SetWebsite ==
  \E p \in ProjectIds, u \in Urls \cup {Deleted} :
    /\ db[p].url # Deleted
    /\ db[p].url = Absent => u # Deleted
    /\ DbWrite(p, [db[p] EXCEPT !.url = u])

\* Monitoring of a project is switched off.
DisableMonitoring ==
  \E p \in ProjectIds :
    /\ db[p].Setting.present
    /\ DbWrite(p, [db[p] EXCEPT !.Setting.status = FALSE])

\* A website is deleted.
DeleteWebsite ==
  \E p \in ProjectIds :
    /\ ~NoRow(db[p].url)
    /\ DbWrite(p, [db[p] EXCEPT !.url = Deleted])

\* A project's own status column is written.
SetProjectStatus ==
  \E p \in ProjectIds, s \in ProjectStatuses : DbWrite(p, [db[p] EXCEPT !.status = s])

----------------------------------------------------------------------------
(* main() and the config poller of startCron() *)

\* main(): const response = await findAllWebsites()
MainFetch ==
  /\ alive /\ mainPc = "fetch"
  /\ \E ok \in BOOLEAN :
       IF ok THEN /\ mainResp' = findAllWebsites(db)
                  /\ mainPc' = "apply"
                  /\ alive' = alive
             ELSE /\ mainResp' = mainResp
                  /\ mainPc' = "failed"
                  /\ alive' \in BOOLEAN
  /\ UNCHANGED <<db, dbChanges, websites, activeJobs, jobs, polls, pollCount, recon,
                 tickVars, faultBudget, now, aggVars, calc, timer>>

\* main(): websites = response; checkWebsites()
MainApply ==
  /\ alive /\ mainPc = "apply"
  /\ websites' = mainResp
  /\ Reconcile(mainResp)
  /\ mainPc' = "done"
  /\ UNCHANGED <<db, dbChanges, mainResp, polls, pollCount, tickVars, faultBudget, now, aggVars, calc, timer>>

\* The poll job fires: const response = await findAllWebsites()
PollFetch ==
  /\ alive /\ mainPc = "done"
  /\ pollCount < MaxPolls
  /\ pollCount' = pollCount + 1
  /\ \E ok \in BOOLEAN :
       IF ok THEN /\ polls' = Append(polls, findAllWebsites(db))
                  /\ alive' = alive
             ELSE /\ polls' = polls
                  /\ alive' \in BOOLEAN
  /\ UNCHANGED <<db, dbChanges, websites, activeJobs, jobs, mainPc, mainResp, recon,
                 tickVars, faultBudget, now, aggVars, calc, timer>>

\* The poll job fires and its fetch succeeds; at most MaxPolls responses wait for
\* their continuation.  The poll job fires every 30 seconds for as long as the
\* process runs, so these ticks are not counted.
PollFetchOk ==
  /\ alive /\ mainPc = "done"
  /\ Len(polls) < MaxPolls
  /\ polls' = Append(polls, findAllWebsites(db))
  /\ UNCHANGED <<db, dbChanges, alive, websites, activeJobs, jobs, mainPc, mainResp,
                 pollCount, recon, tickVars, faultBudget, now, aggVars, calc, timer>>

\* The continuation of a poll tick: compare, replace the snapshot, reconcile.
PollApply ==
  /\ alive
  /\ \E i \in 1..Len(polls) :
       LET response == polls[i]
           hasChanges == response # websites
       IN /\ polls' = [j \in 1..(Len(polls) - 1) |-> IF j < i THEN polls[j] ELSE polls[j + 1]]
          /\ IF hasChanges
             THEN /\ websites' = response
                  /\ Reconcile(response)
             ELSE UNCHANGED <<websites, activeJobs, jobs, recon, alive>>
  /\ UNCHANGED <<db, dbChanges, mainPc, mainResp, pollCount, tickVars, faultBudget, now, aggVars, calc, timer>>

----------------------------------------------------------------------------
(* The storage collaborator: lib/query.ts and the prisma calls of index.ts *)

\* checkWebsite(websiteId, data): prisma.check.create
checkWebsite(rows, id, websiteId, status, responseTime) ==
  Append(rows, [id |-> id, websiteId |-> websiteId, status |-> status,
                responseTime |-> responseTime, checkedAt |-> now])

\* createPerformanceMetric(websiteId, data): appends one performance sample.
createPerformanceMetric(rows, id, websiteId) ==
  Append(rows, [id |-> id, websiteId |-> websiteId, createdAt |-> now])

\* alertWebsite(websiteId, data): creates one alert with resolvedAt = null.
alertWebsite(rows, websiteId, tick) ==
  Append(rows, [websiteId |-> websiteId, resolved |-> FALSE, tick |-> tick])

\* Indices of the alerts of a website with resolvedAt = null.
OpenAlerts(rows, websiteId) ==
  {n \in 1..Len(rows) : rows[n].websiteId = websiteId /\ ~rows[n].resolved}

\* A tick that takes every alert for resolved.
findFirstOpenAlertNever(rows, websiteId) == FALSE

\* prisma.alert.findFirst({where: {websiteId, resolvedAt: null}}) found a row.
findFirstOpenAlert(rows, websiteId) == OpenAlerts(rows, websiteId) # {}

\* An updateMany that matches no row.
resolveOpenAlertsNone(rows, websiteId) == rows

\* prisma.alert.updateMany({where: {websiteId, resolvedAt: null}, data: {resolvedAt}})
resolveOpenAlerts(rows, websiteId) ==
  [n \in 1..Len(rows) |->
     IF rows[n].websiteId = websiteId /\ ~rows[n].resolved
     THEN [rows[n] EXCEPT !.resolved = TRUE]
     ELSE rows[n]]

\* prisma.website.findUnique({where: {id}}) found a row.
websiteExists(d, websiteId) == ~NoRow(d[ProjectOf(websiteId)].url)

\* A guard that never sees a disabled project.
settingDisabledNever(d, projectId) == FALSE

\* projectSetting?.status === false
settingDisabled(d, projectId) ==
  d[projectId].Setting.present /\ d[projectId].Setting.status = FALSE

----------------------------------------------------------------------------
(* monitorWebsite(website, project): one tick of a job *)

InFlight(t) == t.pc \notin {"done", "escaped"}

\* Whether a collaborator call may fail at this step.
FailChoices == IF faults < faultBudget THEN BOOLEAN ELSE {FALSE}

\* responseTime of a check: null in the catch block, Date.now() - startTime otherwise
\* (one representative latency).
Null == -1
Latency == 1

\* response.status >= 200 && response.status < 300
isHealthy(t) == t.probe = "ok"

TickFrame == UNCHANGED <<dbChanges, schedVars, faultBudget, now, aggVars, calc, timer>>

\* The tick goes on at position pc with its record replaced by t.
Goto(i, t, pc) ==
  /\ ticks' = [ticks EXCEPT ![i] = [t EXCEPT !.pc = pc]]
  /\ UNCHANGED lastProbe

\* The tick ends (returns, or leaves its catch block by an exception).
EndTick(i, t, pc) ==
  /\ ticks' = [ticks EXCEPT ![i] =
                 [t EXCEPT !.pc = pc,
                           !.openAfter = Cardinality(OpenAlerts(alerts', t.site))]]
  /\ lastProbe' = IF t.probe = "none" THEN lastProbe
                  ELSE [lastProbe EXCEPT ![t.site] = t.probe]

\* A call inside the try block throws: control moves to the catch block.
Throw(i) ==
  /\ faults' = faults + 1
  /\ Goto(i, [ticks[i] EXCEPT !.fault = TRUE], "cSite")
  /\ UNCHANGED <<db, alive, checks, metrics, alerts, emails>>

\* A call inside the catch block throws: the rejection is handled nowhere.
Escape(i) ==
  /\ faults' = faults + 1
  /\ UNCHANGED <<db, checks, metrics, alerts, emails>>
  /\ EndTick(i, [ticks[i] EXCEPT !.fault = TRUE], "escaped")
  /\ alive' \in BOOLEAN

\* A tick of the website is between its first step and its end.
Busy(websiteId) ==
  \E k \in 1..Len(ticks) : InFlight(ticks[k]) /\ ticks[k].site = websiteId

\* Job j fires: monitorWebsite is called with the job's closure.
Fire(j) ==
  /\ alive
  /\ Len(ticks) < MaxTicks
  /\ Cardinality({k \in 1..Len(ticks) : InFlight(ticks[k])}) < MaxInFlight
  /\ jobs[j].running
  /\ ticks' = Append(
       [k \in 1..Len(ticks) |->
          IF InFlight(ticks[k]) /\ ticks[k].site = jobs[j].website.id
          THEN [ticks[k] EXCEPT !.overlap = TRUE]
          ELSE ticks[k]],
       [site |-> jobs[j].website.id,
        url |-> jobs[j].website.url,
        projectId |-> jobs[j].project.projectId,
        job |-> j,
        pc |-> "guardSite",
        probe |-> "none",
        overlap |-> Busy(jobs[j].website.id),
        prev |-> lastProbe[jobs[j].website.id],
        openBefore |-> Cardinality(OpenAlerts(alerts, jobs[j].website.id)),
        fault |-> FALSE,
        nChecks |-> 0, nPerf |-> 0, nCreated |-> 0, nClosed |-> 0, nEmails |-> 0,
        openAfter |-> 0])
  /\ UNCHANGED <<db, alive, checks, metrics, alerts, emails, faults, lastProbe>>
  /\ TickFrame

\* A running job fires, whether or not an earlier tick of its website has ended.
FireTick == \E j \in 1..Len(jobs) : Fire(j)

\* A running job fires after every earlier tick of its website has ended.
FireTickSeq == \E j \in 1..Len(jobs) : ~Busy(jobs[j].website.id) /\ Fire(j)

\* const websiteExists = await prisma.website.findUnique(...); if (!websiteExists) return
TickGuardSite(i) ==
  /\ alive /\ ticks[i].pc = "guardSite"
  /\ \E fail \in FailChoices :
       IF fail THEN Throw(i)
       ELSE /\ UNCHANGED <<db, alive, checks, metrics, alerts, emails, faults>>
            /\ IF websiteExists(db, ticks[i].site)
               THEN Goto(i, ticks[i], "guardSetting")
               ELSE EndTick(i, ticks[i], "done")
  /\ TickFrame

\* const projectSetting = await prisma.setting.findUnique(...); status === false: return
TickGuardSetting(i) ==
  /\ alive /\ ticks[i].pc = "guardSetting"
  /\ \E fail \in FailChoices :
       IF fail THEN Throw(i)
       ELSE /\ UNCHANGED <<db, alive, checks, metrics, alerts, emails, faults>>
            /\ IF settingDisabled(db, ticks[i].projectId)
               THEN EndTick(i, ticks[i], "done")
               ELSE Goto(i, ticks[i], "probe")
  /\ TickFrame

\* const response = await axios.get(website.url, {timeout, validateStatus: () => true})
\* A transport error (timeout, DNS, refused, other) throws into the catch block.
TickProbe(i) ==
  /\ alive /\ ticks[i].pc = "probe"
  /\ \E outcome \in {"ok", "http", "error"} :
       Goto(i, [ticks[i] EXCEPT !.probe = outcome],
            IF outcome = "error" THEN "cSite" ELSE "check")
  /\ UNCHANGED <<db, alive, checks, metrics, alerts, emails, faults>>
  /\ TickFrame

\* await checkWebsite(website.id, checkData)
TickCheck(i) ==
  /\ alive /\ ticks[i].pc = "check"
  /\ \E fail \in FailChoices :
       IF fail THEN Throw(i)
       ELSE /\ checks' = checkWebsite(checks, <<i, ticks[i].nChecks + 1>>,
                                      ticks[i].site, isHealthy(ticks[i]), Latency)
            /\ Goto(i, [ticks[i] EXCEPT !.nChecks = @ + 1], "perf")
            /\ UNCHANGED <<db, alive, metrics, alerts, emails, faults>>
  /\ TickFrame

\* await createPerformanceMetric(website.id, performanceData); if (isHealthy) ... else ...
TickPerf(i) ==
  /\ alive /\ ticks[i].pc = "perf"
  /\ \E fail \in FailChoices :
       IF fail THEN Throw(i)
       ELSE /\ metrics' = createPerformanceMetric(metrics, <<i, ticks[i].nPerf + 1>>,
                                                  ticks[i].site)
            /\ Goto(i, [ticks[i] EXCEPT !.nPerf = @ + 1],
                    IF isHealthy(ticks[i]) THEN "updProj" ELSE "findAlert")
            /\ UNCHANGED <<db, alive, checks, alerts, emails, faults>>
  /\ TickFrame

\* await updateProject(project.projectId, {status: 'online'})
TickUpdateProject(i) ==
  /\ alive /\ ticks[i].pc = "updProj"
  /\ \E fail \in FailChoices :
       IF fail THEN Throw(i)
       ELSE /\ db' = [db EXCEPT ![ticks[i].projectId].status = "online"]
            /\ Goto(i, ticks[i], "resolve")
            /\ UNCHANGED <<alive, checks, metrics, alerts, emails, faults>>
  /\ TickFrame

\* await prisma.alert.updateMany({where: {websiteId, resolvedAt: null}, ...})
TickResolve(i) ==
  /\ alive /\ ticks[i].pc = "resolve"
  /\ \E fail \in FailChoices :
       IF fail THEN Throw(i)
       ELSE /\ alerts' = resolveOpenAlerts(alerts, ticks[i].site)
            /\ EndTick(i, [ticks[i] EXCEPT
                             !.nClosed = @ + Cardinality(OpenAlerts(alerts, ticks[i].site))],
                       "done")
            /\ UNCHANGED <<db, alive, checks, metrics, emails, faults>>
  /\ TickFrame

\* const existingAlert = await prisma.alert.findFirst(...); if (!existingAlert) ...
TickFindAlert(i) ==
  /\ alive /\ ticks[i].pc = "findAlert"
  /\ \E fail \in FailChoices :
       IF fail THEN Throw(i)
       ELSE /\ UNCHANGED <<db, alive, checks, metrics, alerts, emails, faults>>
            /\ IF findFirstOpenAlert(alerts, ticks[i].site)
               THEN EndTick(i, ticks[i], "done")
               ELSE Goto(i, ticks[i], "createAlert")
  /\ TickFrame

\* await alertWebsite(website.id, {message: `Website ${website.url} is down`})
TickCreateAlert(i) ==
  /\ alive /\ ticks[i].pc = "createAlert"
  /\ \E fail \in FailChoices :
       IF fail THEN Throw(i)
       ELSE /\ alerts' = alertWebsite(alerts, ticks[i].site, i)
            /\ Goto(i, [ticks[i] EXCEPT !.nCreated = @ + 1], "email")
            /\ UNCHANGED <<db, alive, checks, metrics, emails, faults>>
  /\ TickFrame

\* await sendAlertEmail(website, project): two reads, then resend.emails.send,
\* whose error result is logged and not thrown.
TickEmail(i) ==
  /\ alive /\ ticks[i].pc = "email"
  /\ \E fail \in FailChoices :
       IF fail THEN Throw(i)
       ELSE /\ emails' = [emails EXCEPT ![ticks[i].site] = @ + 1]
            /\ UNCHANGED <<db, alive, checks, metrics, alerts, faults>>
            /\ EndTick(i, [ticks[i] EXCEPT !.nEmails = @ + 1], "done")
  /\ TickFrame

\* catch: const websiteExists = await prisma.website.findUnique(...); if (!websiteExists) return
CatchGuardSite(i) ==
  /\ alive /\ ticks[i].pc = "cSite"
  /\ \E fail \in FailChoices :
       IF fail THEN Escape(i)
       ELSE /\ UNCHANGED <<db, alive, checks, metrics, alerts, emails, faults>>
            /\ IF websiteExists(db, ticks[i].site)
               THEN Goto(i, ticks[i], "cCheck")
               ELSE EndTick(i, ticks[i], "done")
  /\ TickFrame

\* catch: await checkWebsite(website.id, {status: false, ...})
CatchCheck(i) ==
  /\ alive /\ ticks[i].pc = "cCheck"
  /\ \E fail \in FailChoices :
       IF fail THEN Escape(i)
       ELSE /\ checks' = checkWebsite(checks, <<i, ticks[i].nChecks + 1>>,
                                      ticks[i].site, FALSE, Null)
            /\ Goto(i, [ticks[i] EXCEPT !.nChecks = @ + 1], "cFindAlert")
            /\ UNCHANGED <<db, alive, metrics, alerts, emails, faults>>
  /\ TickFrame

\* catch: const existingAlert = await prisma.alert.findFirst(...)
CatchFindAlert(i) ==
  /\ alive /\ ticks[i].pc = "cFindAlert"
  /\ \E fail \in FailChoices :
       IF fail THEN Escape(i)
       ELSE /\ UNCHANGED <<db, alive, checks, metrics, alerts, emails, faults>>
            /\ IF findFirstOpenAlert(alerts, ticks[i].site)
               THEN EndTick(i, ticks[i], "done")
               ELSE Goto(i, ticks[i], "cCreateAlert")
  /\ TickFrame

\* catch: await alertWebsite(website.id, {message: `Website ${website.url} is unreachable`})
CatchCreateAlert(i) ==
  /\ alive /\ ticks[i].pc = "cCreateAlert"
  /\ \E fail \in FailChoices :
       IF fail THEN Escape(i)
       ELSE /\ alerts' = alertWebsite(alerts, ticks[i].site, i)
            /\ Goto(i, [ticks[i] EXCEPT !.nCreated = @ + 1], "cEmail")
            /\ UNCHANGED <<db, alive, checks, metrics, emails, faults>>
  /\ TickFrame

\* catch: await sendAlertEmail(website, project)
CatchEmail(i) ==
  /\ alive /\ ticks[i].pc = "cEmail"
  /\ \E fail \in FailChoices :
       IF fail THEN Escape(i)
       ELSE /\ emails' = [emails EXCEPT ![ticks[i].site] = @ + 1]
            /\ UNCHANGED <<db, alive, checks, metrics, alerts, faults>>
            /\ EndTick(i, [ticks[i] EXCEPT !.nEmails = @ + 1], "done")
  /\ TickFrame

----------------------------------------------------------------------------
(* calculateUptime(): the aggregation job *)

\* fiveMinutesAgo.setMinutes(fiveMinutesAgo.getMinutes() - 30), in units of ten minutes
WindowSize == 3

\* checks.filter(check => check.status).length
successfulChecksOf(rows) ==
  Cardinality({i \in 1..Len(rows) : rows[i].status})

\* An uptime computed with an integer division.
uptimeOfTruncated(successfulChecks, totalChecks) ==
  [num |-> (successfulChecks \div totalChecks) * 100, den |-> 1]

\* (successfulChecks / totalChecks) * 100, as the exact fraction num / den
uptimeOf(successfulChecks, totalChecks) ==
  [num |-> successfulChecks * 100, den |-> totalChecks]

\* 100 - uptime
downtimeOf(uptime) ==
  [num |-> 100 * uptime.den - uptime.num, den |-> uptime.den]

\* checks.reduce((sum, check) => sum + (check.responseTime || 0), 0)
RECURSIVE SumResponseTime(_)
SumResponseTime(rows) ==
  IF rows = <<>> THEN 0
  ELSE (IF Head(rows).responseTime = Null THEN 0 ELSE Head(rows).responseTime)
       + SumResponseTime(Tail(rows))

\* The data of the UptimeLog computed from the checks of one window (checks.length > 0).
summaryOf(rows, date) ==
  LET totalChecks == Len(rows)
      successfulChecks == successfulChecksOf(rows)
      failedChecks == totalChecks - successfulChecks
      uptime == uptimeOf(successfulChecks, totalChecks)
      downtime == downtimeOf(uptime)
  IN [date |-> date,
      uptime |-> uptime,
      downtime |-> downtime,
      checks |-> totalChecks,
      failures |-> failedChecks,
      avgResponseTime |-> [num |-> SumResponseTime(rows), den |-> totalChecks]]

\* createUptimeLog(websiteId, data): appends one UptimeLog.
createUptimeLog(rows, websiteId, data, run) ==
  Append(rows, [websiteId |-> websiteId, data |-> data, run |-> run])

\* prisma.check.findMany({where: {websiteId, checkedAt: {gte, lt}}})
findManyChecks(rows, websiteId, gte, lt) ==
  SelectSeq(rows, LAMBDA r : r.websiteId = websiteId /\ r.checkedAt >= gte /\ r.checkedAt < lt)

\* The websites of a response in the order of the nested for loops.
RECURSIVE SitesOfResponse(_)
SitesOfResponse(response) ==
  IF response = <<>> THEN <<>>
  ELSE [j \in 1..Len(Head(response).Website) |-> Head(response).Website[j].id]
       \o SitesOfResponse(Tail(response))

IdleAgg == [pc |-> "idle", run |-> 0, gte |-> 0, lt |-> 0, sites |-> <<>>, idx |-> 0,
            atStart |-> <<>>, ended |-> "none"]

AggFrame == UNCHANGED <<db, dbChanges, schedVars, ticks, alerts, emails, lastProbe,
                        faultBudget, now, calc, timer>>

\* The catch of calculateUptime: the error is logged and the run is over.
AggAbort ==
  /\ faults' = faults + 1
  /\ agg' = [agg EXCEPT !.pc = "idle", !.ended = "error"]
  /\ UNCHANGED <<alive, checks, metrics, uptimeLogs>>

\* The loop goes on with the next website, or the run returns.
AggAdvance(a) ==
  IF a.idx >= Len(a.sites)
  THEN [a EXCEPT !.pc = "idle", !.ended = "returned"]
  ELSE [a EXCEPT !.pc = "find", !.idx = a.idx + 1]

\* The uptime job fires: the window bounds are computed from the clock.
AggStart ==
  /\ alive /\ mainPc \in {"done"} /\ agg.pc = "idle"
  /\ agg.run < MaxAggRuns
  /\ agg' = [IdleAgg EXCEPT !.pc = "fetch", !.run = agg.run + 1,
                            !.gte = now - WindowSize, !.lt = now,
                            !.atStart = SelectSeq(checks, LAMBDA r :
                                          r.checkedAt >= now - WindowSize /\ r.checkedAt < now)]
  /\ UNCHANGED <<alive, checks, metrics, uptimeLogs, faults>>
  /\ AggFrame

\* const websites = await findAllWebsites()
AggFetch ==
  /\ alive /\ agg.pc = "fetch"
  /\ \E fail \in FailChoices :
       IF fail THEN AggAbort
       ELSE /\ agg' = [agg EXCEPT !.pc = "deleteChecks",
                                  !.sites = SitesOfResponse(findAllWebsites(db))]
            /\ UNCHANGED <<alive, checks, metrics, uptimeLogs, faults>>
  /\ AggFrame

\* const deletedChecks = await prisma.check.deleteMany({})
AggDeleteChecks ==
  /\ alive /\ agg.pc = "deleteChecks"
  /\ \E fail \in FailChoices :
       IF fail THEN AggAbort
       ELSE /\ checks' = <<>>
            /\ agg' = [agg EXCEPT !.pc = "deleteMetrics"]
            /\ UNCHANGED <<alive, metrics, uptimeLogs, faults>>
  /\ AggFrame

\* const deletedMetrics = await prisma.performanceMetric.deleteMany({})
AggDeleteMetrics ==
  /\ alive /\ agg.pc = "deleteMetrics"
  /\ \E fail \in FailChoices :
       IF fail THEN AggAbort
       ELSE /\ metrics' = <<>>
            /\ agg' = AggAdvance(agg)
            /\ UNCHANGED <<alive, checks, uptimeLogs, faults>>
  /\ AggFrame

\* One iteration of the loops: const checks = await prisma.check.findMany(...) and,
\* if (checks.length > 0), await createUptimeLog(website.id, {date: fiveMinutesAgo, ...}).
\* The write touches the UptimeLog table only, which nothing else reads, so it is
\* taken in the same step as the read.
AggWebsite ==
  /\ alive /\ agg.pc = "find"
  /\ \E fail \in FailChoices :
       IF fail THEN AggAbort
       ELSE /\ LET found == findManyChecks(checks, agg.sites[agg.idx], agg.gte, agg.lt)
               IN uptimeLogs' = IF Len(found) > 0
                                THEN createUptimeLog(uptimeLogs, agg.sites[agg.idx],
                                                     summaryOf(found, agg.gte), agg.run)
                                ELSE uptimeLogs
            /\ agg' = AggAdvance(agg)
            /\ UNCHANGED <<alive, checks, metrics, faults>>
  /\ AggFrame

\* Time passes.
Advance ==
  /\ now < MaxTime
  /\ now' = now + 1
  /\ UNCHANGED <<db, dbChanges, alive, schedVars, tickVars, faultBudget, aggVars, calc, timer>>

----------------------------------------------------------------------------
(* The summary of one window as a function of its rows *)

NoCalc == [rows |-> <<>>, done |-> FALSE, summary |-> <<>>]

ResponseTimes == {Null, 0, 2}

\* The aggregation step of one website on the rows findMany returned.
Calculate ==
  /\ ~calc.done
  /\ calc' = [calc EXCEPT !.done = TRUE,
                          !.summary = IF Len(calc.rows) > 0
                                      THEN <<summaryOf(calc.rows, 0)>>
                                      ELSE <<>>]
  /\ UNCHANGED <<db, dbChanges, alive, schedVars, tickVars, faultBudget, now, aggVars, timer>>

----------------------------------------------------------------------------
(* The cadence of a job: the cron expression of an interval on the wall clock *)

\* The forms of the seconds and minutes fields the switch can produce: a literal
\* 0, a wildcard, or a wildcard with a step.
Star == -2
FieldForms ==
  [second : {[lit |-> 0, step |-> 0], [lit |-> Star, step |-> 30]},
   minute : {[lit |-> Star, step |-> m] : m \in {1} \cup (0..MaxStep)} \cup
            {[lit |-> Star, step |-> Star]}]

\* A field as the template literal prints it.
FieldToString(f) ==
  IF f.lit # Star THEN ToString(f.lit)
  ELSE IF f.step = Star THEN "*"
  ELSE "*/" \o ToString(f.step)

\* The six-field expression of a form.
ExpressionOf(form) ==
  FieldToString(form.second) \o " " \o FieldToString(form.minute) \o " * * * *"

\* CronTime's parse of an expression: the form that prints as the expression, if
\* there is one.
Parses(expr) == \E form \in FieldForms : ExpressionOf(form) = expr
ParseCron(expr) == CHOOSE form \in FieldForms : ExpressionOf(form) = expr

\* The values a field matches within low..high: a literal matches itself, a
\* wildcard with step s matches low, low + s, low + 2 s, ... up to high.
FieldMatches(f, low, high) ==
  IF f.lit # Star THEN {f.lit}
  ELSE IF f.step = Star THEN low..high
  ELSE {v \in low..high : (v - low) % f.step = 0}

\* A step of zero is rejected by the parser ("has a step of zero") or, in builds
\* of the library without that test, replaced by a step of one.
ZeroStepOutcomes == {"throws", "one"}

\* The clock counts half minutes: its second of the minute and minute of the hour.
SecondOf(t) == (t % 2) * 30
MinuteOf(t) == (t \div 2) % 60

NoTimer == [state |-> "none", interval |-> 0, expr |-> "", seconds |-> {}, minutes |-> {},
            t |-> 0, last |-> -1, gaps |-> {}]

\* The intervals a Setting may hold.
CadenceIntervals ==
  {Undefined, 30, 45, 60, 90, 120, 300, 420, 600, 900, 2700, 3600, 7200}

CadenceFrame ==
  UNCHANGED <<db, dbChanges, alive, schedVars, tickVars, faultBudget, now, aggVars, calc>>

\* new cron.CronJob(cronExpression, ...); job.start() for a target's interval.
NewCronJob ==
  /\ timer.state = "none"
  /\ \E interval \in CadenceIntervals, zero \in ZeroStepOutcomes :
       LET expr == cronExpression(interval)
       IN IF ~Parses(expr)
          THEN timer' = [timer EXCEPT !.state = "threw", !.interval = interval, !.expr = expr]
          ELSE LET form == ParseCron(expr)
                   zeroStep == form.minute.lit = Star /\ form.minute.step = 0
                   minute == IF zeroStep THEN [form.minute EXCEPT !.step = 1] ELSE form.minute
               IN IF zeroStep /\ zero = "throws"
                  THEN timer' = [timer EXCEPT !.state = "threw", !.interval = interval,
                                              !.expr = expr]
                  ELSE timer' = [timer EXCEPT !.state = "running", !.interval = interval,
                                              !.expr = expr,
                                              !.seconds = FieldMatches(form.second, 0, 59),
                                              !.minutes = FieldMatches(minute, 0, 59)]
  /\ CadenceFrame

\* Half a minute passes; the job fires when the clock matches its fields.
TimerTick ==
  /\ timer.state = "running"
  /\ timer.t < MaxClock
  /\ LET t == timer.t + 1
         fires == SecondOf(t) \in timer.seconds /\ MinuteOf(t) \in timer.minutes
     IN timer' = IF fires
                 THEN [timer EXCEPT !.t = t, !.last = t,
                                    !.gaps = IF timer.last < 0 THEN @
                                             ELSE @ \cup {(t - timer.last) * 30}]
                 ELSE [timer EXCEPT !.t = t]
  /\ CadenceFrame

----------------------------------------------------------------------------
(* Specification of the scheduler: store writes, main and the poller *)

NoRecon == [n |-> 0, snapshot |-> <<>>, threw |-> FALSE, before |-> <<>>,
            jobsBefore |-> <<>>, prevSnapshot |-> <<>>, prevThrew |-> FALSE]

\* The configurations the process is started on.
InitDbValues ==
  [ProjectIds -> [status : {"new"},
                  Setting : {NoSetting,
                             [present |-> TRUE, status |-> TRUE, interval |-> 60],
                             [present |-> TRUE, status |-> FALSE, interval |-> 60]},
                  url : {"http://a", Absent}]]

InitSched ==
  /\ db \in InitDbValues
  /\ dbChanges = 0
  /\ websites = <<>>
  /\ activeJobs = <<>>
  /\ jobs = <<>>
  /\ alive = TRUE
  /\ mainPc = "fetch"
  /\ mainResp = <<>>
  /\ polls = <<>>
  /\ pollCount = 0
  /\ recon = NoRecon
  /\ ticks = <<>>
  /\ checks = <<>>
  /\ metrics = <<>>
  /\ alerts = <<>>
  /\ emails = [w \in WebsiteIds |-> 0]
  /\ faults = 0
  /\ lastProbe = [w \in WebsiteIds |-> "none"]
  /\ faultBudget = 0
  /\ now = 0
  /\ agg = IdleAgg
  /\ uptimeLogs = <<>>
  /\ calc = NoCalc
  /\ timer = NoTimer

NextSched ==
  \/ SetSetting
  \/ SetWebsite
  \/ SetProjectStatus
  \/ MainFetch
  \/ MainApply
  \/ PollFetch
  \/ PollApply

SpecSched == InitSched /\ [][NextSched]_vars

----------------------------------------------------------------------------
(* Specification of the ticks: the process after main() has reconciled an     *)
(* initial configuration; jobs fire, the store is written, the poller runs.   *)

Started(d, budget) ==
  LET snapshot == findAllWebsites(d)
      r == checkWebsites(snapshot, <<>>, <<>>)
  IN /\ db = d
     /\ dbChanges = 0
     /\ websites = snapshot
     /\ activeJobs = r.activeJobs
     /\ jobs = r.jobs
     /\ alive = TRUE
     /\ mainPc = "done"
     /\ mainResp = snapshot
     /\ polls = <<>>
     /\ pollCount = 0
     /\ recon = [NoRecon EXCEPT !.n = 1, !.snapshot = snapshot, !.threw = r.threw]
     /\ ticks = <<>>
     /\ checks = <<>>
     /\ metrics = <<>>
     /\ alerts = <<>>
     /\ emails = [w \in WebsiteIds |-> 0]
     /\ faults = 0
     /\ lastProbe = [w \in WebsiteIds |-> "none"]
     /\ faultBudget = budget
     /\ now = 0
     /\ agg = IdleAgg
     /\ uptimeLogs = <<>>
     /\ timer = NoTimer

\* One enabled project with a website; the other project has no website yet.
TickDb ==
  [p \in ProjectIds |->
     [status |-> "new",
      Setting |-> IF p = "p1" THEN [present |-> TRUE, status |-> TRUE, interval |-> 60]
                  ELSE NoSetting,
      url |-> IF p = "p1" THEN "http://a" ELSE Absent]]

Init == Started(TickDb, 0) /\ calc = NoCalc

TickStep ==
  \E i \in 1..Len(ticks) :
    \/ TickGuardSite(i)
    \/ TickGuardSetting(i)
    \/ TickProbe(i)
    \/ TickCheck(i)
    \/ TickPerf(i)
    \/ TickUpdateProject(i)
    \/ TickResolve(i)
    \/ TickFindAlert(i)
    \/ TickCreateAlert(i)
    \/ TickEmail(i)
    \/ CatchGuardSite(i)
    \/ CatchCheck(i)
    \/ CatchFindAlert(i)
    \/ CatchCreateAlert(i)
    \/ CatchEmail(i)

Next ==
  \/ FireTick
  \/ TickStep
  \/ DisableMonitoring
  \/ DeleteWebsite

Spec == Init /\ [][Next]_vars

----------------------------------------------------------------------------
(* Specification of the ticks on a store that is not written.                 *)

NextStable ==
  \/ FireTick
  \/ TickStep

SpecStable == Init /\ [][NextStable]_vars

----------------------------------------------------------------------------
(* Specification of the ticks when collaborator calls may fail.               *)

InitFault == Started(TickDb, MaxFaults) /\ calc = NoCalc

SpecFault == InitFault /\ [][NextStable]_vars

----------------------------------------------------------------------------
(* Specification of ticks that run one after another per website, with every  *)
(* collaborator call succeeding.                                              *)

InitSeq == Started(TickDb, 0) /\ calc = NoCalc

NextSeq ==
  \/ FireTickSeq
  \/ TickStep
  \/ DisableMonitoring
  \/ DeleteWebsite

SpecSeq == InitSeq /\ [][NextSeq]_vars

----------------------------------------------------------------------------
(* Specification of the aggregation job beside the ticks and the clock.       *)

NextAgg ==
  \/ FireTickSeq
  \/ TickStep
  \/ Advance
  \/ AggStart
  \/ AggFetch
  \/ AggDeleteChecks
  \/ AggDeleteMetrics
  \/ AggWebsite

SpecAgg == Init /\ [][NextAgg]_vars

----------------------------------------------------------------------------
(* Specification of the summary computation on the rows of one window.        *)

CheckRows == [status : BOOLEAN, responseTime : ResponseTimes]

RowSeqs == UNION {[1..n -> CheckRows] : n \in 0..MaxRows}

InitMath ==
  /\ Started(TickDb, 0)
  /\ calc \in {[NoCalc EXCEPT !.rows = r] : r \in RowSeqs}

SpecMath == InitMath /\ [][Calculate]_vars

----------------------------------------------------------------------------
(* Claims about the reconciler, checked under SpecSched *)

\* The identities (website id, url, interval) of the live task table.
LiveIdentities ==
  {<<jobs[activeJobs[k]].website.id, jobs[activeJobs[k]].website.url,
     jobs[activeJobs[k]].project.interval>> : k \in DOMAIN activeJobs}

\* The eligible targets of a snapshot: the websites of the projects that have at
\* least one website and whose monitoring is not disabled.
EligibleTargets(snapshot) ==
  UNION {{<<snapshot[i].Website[j].id, snapshot[i].Website[j].url,
            snapshot[i].Setting.interval>> : j \in 1..Len(snapshot[i].Website)} :
         i \in {n \in 1..Len(snapshot) :
                  ~(snapshot[n].Setting.present /\ ~snapshot[n].Setting.status)}}

\* A cadence can be built for the target's interval.
Schedulable(target) == ~CronJobThrows(cronExpression(target[3]))

\* C3: after a reconciliation on a snapshot the identities of the live task table
\* are exactly the eligible targets of that snapshot.
C3_Convergence ==
  recon.n > 0 => LiveIdentities = EligibleTargets(recon.snapshot)

\* C4: a reconciliation whose desired set equals that of the reconciliation before
\* it leaves the task table and every job as they were (nothing started, nothing
\* stopped), and no reconciliation replaces or stops a job whose key is desired
\* and was already in the table.
C4_Idempotence ==
  /\ (recon.n >= 2 /\ DesiredKeys(recon.snapshot) = DesiredKeys(recon.prevSnapshot))
       => (activeJobs = recon.before /\ jobs = recon.jobsBefore)
  /\ recon.n >= 1 =>
       \A k \in DOMAIN recon.before \cap DesiredKeys(recon.snapshot) :
         /\ k \in DOMAIN activeJobs
         /\ activeJobs[k] = recon.before[k]
         /\ jobs[activeJobs[k]] = recon.jobsBefore[recon.before[k]]
         /\ jobs[activeJobs[k]].running

\* A second reconciliation with the same, non-empty desired set has run on a
\* different snapshot, with a task in the table.
C4_Witness ==
  /\ recon.n >= 2
  /\ recon.snapshot # recon.prevSnapshot
  /\ DesiredKeys(recon.snapshot) = DesiredKeys(recon.prevSnapshot)
  /\ DOMAIN activeJobs # {}
  /\ DOMAIN activeJobs = DesiredKeys(recon.snapshot)

\* C10: when the task of one target cannot be created, the reconciliation still
\* leaves a task for every other eligible target and no task that is not desired.
C10_FailureIsolation ==
  (recon.n > 0 /\ recon.threw) =>
     LiveIdentities = {t \in EligibleTargets(recon.snapshot) : Schedulable(t)}

----------------------------------------------------------------------------
(* Claims about the ticks and the alerts *)

Failed(t) == t.probe \in {"http", "error"}
Probed(t) == t.probe # "none"

\* C1: at most one alert of a website is open, in every reachable state.
C1_AtMostOneOpenAlert ==
  \A w \in WebsiteIds : Cardinality(OpenAlerts(alerts, w)) <= 1

\* The tick before tick i among the ticks of its website that made a probe failed.
PrevProbeFailed(i) ==
  \E j \in 1..(i - 1) :
    /\ ticks[j].site = ticks[i].site /\ Failed(ticks[j])
    /\ \A k \in (j + 1)..(i - 1) : ~(ticks[k].site = ticks[i].site /\ Probed(ticks[k]))

\* The Resolved-to-Open transitions of a website: the maximal runs of failed probes.
Transitions(w) ==
  Cardinality({i \in 1..Len(ticks) :
                 ticks[i].site = w /\ Failed(ticks[i]) /\ ~PrevProbeFailed(i)})

AlertsCreated(w) ==
  Cardinality({n \in 1..Len(alerts) : alerts[n].websiteId = w})

\* A failed probe while an alert is open creates no alert and sends no notification.
NoDuplicateOnOpen ==
  \A i \in 1..Len(ticks) :
    (~InFlight(ticks[i]) /\ Failed(ticks[i]) /\ ticks[i].openBefore >= 1)
      => (ticks[i].nCreated = 0 /\ ticks[i].nEmails = 0)

\* C5 as stated: with ticks one after another and every call succeeding, between
\* the ticks of a website the alerts created and the notifications sent both equal
\* the number of Resolved-to-Open transitions, and a failed probe while an alert is
\* open creates no alert and sends no notification.
C5_AlertCount ==
  /\ \A w \in WebsiteIds :
       ~Busy(w) => (AlertsCreated(w) = Transitions(w) /\ emails[w] = Transitions(w))
  /\ NoDuplicateOnOpen

\* C5 amended: the same for a website that is still in the store.
C5_AlertCountWhileStored ==
  /\ \A w \in WebsiteIds :
       (~Busy(w) /\ websiteExists(db, w))
         => (AlertsCreated(w) = Transitions(w) /\ emails[w] = Transitions(w))
  /\ NoDuplicateOnOpen

\* Probes fail, fail, succeed on a stored website: one alert, one notification,
\* and the alert was resolved by the third tick.
C5_Witness ==
  /\ Len(ticks) = 3
  /\ \A i \in 1..3 : ticks[i].site = "w1" /\ ticks[i].pc = "done"
  /\ Failed(ticks[1]) /\ Failed(ticks[2]) /\ ticks[3].probe = "ok"
  /\ ticks[2].openBefore = 1
  /\ websiteExists(db, "w1")
  /\ AlertsCreated("w1") = 1 /\ emails["w1"] = 1
  /\ ticks[3].nClosed = 1

\* C6: a successful tick that follows a failed tick of its website, with no other
\* tick of the website in flight beside it, closes exactly one alert, creates none
\* and leaves no alert open; a successful tick that finds no open alert changes no
\* alert.
C6_AlertResolution ==
  \A i \in 1..Len(ticks) :
    (ticks[i].pc = "done" /\ ticks[i].probe = "ok" /\ ~ticks[i].overlap)
      => /\ ticks[i].prev \in {"http", "error"}
              => (ticks[i].nClosed = 1 /\ ticks[i].nCreated = 0 /\ ticks[i].openAfter = 0)
         /\ ticks[i].openBefore = 0
              => (ticks[i].nClosed = 0 /\ ticks[i].nCreated = 0)

\* C9: every tick that made a probe has persisted a check and a performance sample
\* when it ends.
C9_UnconditionalRecording ==
  \A i \in 1..Len(ticks) :
    (Probed(ticks[i]) /\ ~InFlight(ticks[i]))
      => (ticks[i].nChecks >= 1 /\ ticks[i].nPerf >= 1)

----------------------------------------------------------------------------
(* Claims about the aggregation job *)

\* An UptimeLog of the website covers the time.
CoveredBySummary(websiteId, at) ==
  \E k \in 1..Len(uptimeLogs) :
    /\ uptimeLogs[k].websiteId = websiteId
    /\ uptimeLogs[k].data.date <= at
    /\ at < uptimeLogs[k].data.date + WindowSize

RowGone(row, rows) == \A j \in 1..Len(rows) : rows[j] # row

\* C2: a step deletes a check or a performance record only when an UptimeLog
\* covering it has been written.
C2_RetentionOrdering ==
  [][/\ \A i \in 1..Len(checks) :
          RowGone(checks[i], checks')
            => CoveredBySummary(checks[i].websiteId, checks[i].checkedAt)
     /\ \A i \in 1..Len(metrics) :
          RowGone(metrics[i], metrics')
            => CoveredBySummary(metrics[i].websiteId, metrics[i].createdAt)]_vars

\* C7: when a run has returned, every website of the run with checks in the window
\* at the start of the run has exactly one UptimeLog of the run, counting those
\* checks, and every website without such checks has none.
C7_SummaryEmission ==
  agg.ended = "returned" =>
    \A i \in 1..Len(agg.sites) :
      LET n == Len(SelectSeq(agg.atStart, LAMBDA r : r.websiteId = agg.sites[i]))
          logs == {k \in 1..Len(uptimeLogs) :
                     uptimeLogs[k].run = agg.run /\ uptimeLogs[k].websiteId = agg.sites[i]}
      IN IF n > 0
         THEN Cardinality(logs) = 1 /\ \A k \in logs : uptimeLogs[k].data.checks = n
         ELSE logs = {}

\* C8: the summary computed from n > 0 checks of which s succeeded has total n,
\* failures n - s, uptime 100 s / n and downtime 100 - uptime, both in [0, 100].
C8_UptimeMath ==
  (calc.done /\ Len(calc.rows) > 0) =>
    LET n == Len(calc.rows)
        s == Cardinality({i \in 1..n : calc.rows[i].status})
        d == calc.summary[1]
    IN /\ Len(calc.summary) = 1
       /\ d.checks = n
       /\ d.failures = n - s
       /\ d.uptime.den > 0 /\ d.downtime.den > 0
       /\ d.uptime.num * n = 100 * s * d.uptime.den
       /\ d.downtime.num * d.uptime.den
            = (100 * d.uptime.den - d.uptime.num) * d.downtime.den
       /\ 0 <= d.uptime.num /\ d.uptime.num <= 100 * d.uptime.den
       /\ 0 <= d.downtime.num /\ d.downtime.num <= 100 * d.downtime.den

\* The window success, success, fail, success has been summarised: 75 and 25.
C8_Witness ==
  /\ calc.done
  /\ Len(calc.rows) = 4
  /\ calc.rows[1].status /\ calc.rows[2].status /\ ~calc.rows[3].status /\ calc.rows[4].status
  /\ calc.summary[1].uptime.num = 75 * calc.summary[1].uptime.den
  /\ calc.summary[1].downtime.num = 25 * calc.summary[1].downtime.den

----------------------------------------------------------------------------
(* Claims about the poller and the task table, checked under SpecSched *)

\* A poll tick whose findAllWebsites() rejected: the tick is counted and no
\* response is queued for its continuation.
PollFetchFailed == pollCount' = pollCount + 1 /\ polls' = polls

\* C11: a poll tick whose fetch fails leaves the held snapshot and the task table
\* as they were, invokes no reconciliation, and leaves the process running so
\* that the next poll tick runs.
C11_FetchFailure ==
  [][PollFetchFailed =>
       /\ websites' = websites
       /\ activeJobs' = activeJobs
       /\ jobs' = jobs
       /\ recon' = recon
       /\ alive' = alive]_vars

\* C13: after a reconciliation on a snapshot, every website of a project that has
\* no Setting record has a running task in the table.
C13_DefaultEligibility ==
  recon.n > 0 =>
    \A i \in 1..Len(recon.snapshot) :
      ~recon.snapshot[i].Setting.present =>
        \A j \in 1..Len(recon.snapshot[i].Website) :
          \E k \in DOMAIN activeJobs :
            /\ jobs[activeJobs[k]].website = recon.snapshot[i].Website[j]
            /\ jobs[activeJobs[k]].running

\* The timers that are running, and the timers the table holds.
RunningTimers == {j \in 1..Len(jobs) : jobs[j].running}
TableTimers == {activeJobs[k] : k \in DOMAIN activeJobs}

\* C15: between the steps of main and of the poll ticks, the running timers are
\* exactly the timers of the table, one per key: no timer runs without an entry
\* and no entry holds a stopped timer.
C15_TableTimerConsistency ==
  /\ RunningTimers = TableTimers
  /\ \A k \in DOMAIN activeJobs : jobs[activeJobs[k]].key = k
  /\ \A k1, k2 \in DOMAIN activeJobs : activeJobs[k1] = activeJobs[k2] => k1 = k2

\* Two reconciliations have run while a poll response was still pending; one task
\* was stopped and removed, another is running in the table.
C15_Witness ==
  /\ recon.n >= 2
  /\ Len(polls) >= 1
  /\ \E j \in 1..Len(jobs) : ~jobs[j].running
  /\ DOMAIN activeJobs # {}

----------------------------------------------------------------------------
(* Claims about ticks whose collaborator calls may fail, checked under SpecFault *)

\* C14: no failure of a collaborator call leaves a tick as an unhandled error, and
\* the process keeps running.
C14_TickErrorContainment ==
  /\ \A i \in 1..Len(ticks) : ticks[i].pc # "escaped"
  /\ alive

\* The check rows a tick has appended.
ChecksOfTick(i) == {n \in 1..Len(checks) : checks[n].id[1] = i}

\* C16: no tick appends more than one check, a finished tick that made a probe has
\* appended exactly one, and a tick creates or resolves alerts at most once and
\* sends at most one notification.
C16_OneCheckPerTick ==
  \A i \in 1..Len(ticks) :
    /\ ticks[i].nChecks <= 1
    /\ (ticks[i].pc = "done" /\ Probed(ticks[i]) /\ websiteExists(db, ticks[i].site))
         => ticks[i].nChecks = 1
    /\ ticks[i].nCreated + (IF ticks[i].nClosed > 0 THEN 1 ELSE 0) <= 1
    /\ ticks[i].nEmails <= 1

\* C19: a tick whose probe returned a 2xx status creates no alert, sends no
\* notification and records no unhealthy check; alerts and notifications come
\* only from ticks whose probe failed.
C19_AlertsOnlyForFailedProbes ==
  \A i \in 1..Len(ticks) :
    ~Failed(ticks[i]) =>
      /\ ticks[i].nCreated = 0
      /\ ticks[i].nEmails = 0
      /\ \A n \in ChecksOfTick(i) : checks[n].status

----------------------------------------------------------------------------
(* Claims about the guards of a tick, checked under Spec *)

\* The store has no row of the website; the project's Setting says disabled.
RowMissing(w) == db[ProjectOf(w)].url \in {Absent, Deleted}
MonitoringOff(p) == db[p].Setting.present /\ ~db[p].Setting.status

\* The tick takes its guard step while the guard's condition fails.
GuardStops(i) ==
  /\ ticks'[i].pc # ticks[i].pc
  /\ \/ ticks[i].pc = "guardSite" /\ RowMissing(ticks[i].site)
     \/ ticks[i].pc = "guardSetting" /\ MonitoringOff(ticks[i].projectId)

\* C12: a tick whose guard finds the website gone or the project disabled ends at
\* that step without error, having made no probe, and no check, performance
\* sample, alert or notification is written by the step or was written by the
\* tick before it.
C12_TickGuards ==
  [][\A i \in 1..Len(ticks) :
       GuardStops(i) =>
         /\ ticks'[i].pc = "done"
         /\ ticks'[i].probe = "none" /\ ~ticks'[i].fault
         /\ ticks'[i].nChecks = 0 /\ ticks'[i].nPerf = 0
         /\ ticks'[i].nCreated = 0 /\ ticks'[i].nClosed = 0 /\ ticks'[i].nEmails = 0
         /\ checks' = checks /\ metrics' = metrics
         /\ alerts' = alerts /\ emails' = emails
         /\ alive' = alive /\ lastProbe' = lastProbe]_vars

\* A task that is still running has fired on a disabled project or a deleted
\* website, and the tick has ended at its guard with nothing written for it.
C12_Witness ==
  \E i \in 1..Len(ticks) :
    /\ ticks[i].pc = "done" /\ ticks[i].probe = "none"
    /\ jobs[ticks[i].job].running
    /\ RowMissing(ticks[i].site) \/ MonitoringOff(ticks[i].projectId)
    /\ ChecksOfTick(i) = {}
    /\ \E k \in 1..Len(ticks) : MonitoringOff(ticks[k].projectId) /\ ticks[k].pc = "done"

----------------------------------------------------------------------------
(* Specification of one job's cadence on the wall clock.                      *)

NextCadence ==
  \/ NewCronJob
  \/ TimerTick

SpecCadence == Init /\ [][NextCadence]_vars

\* The period the interval stands for, in seconds: the interval itself for the
\* presets, whole minutes rounded down for every other interval of a minute or more.
Presets == {30, 60, 300, 600, 900}
HasCadence(interval) ==
  interval \in Presets \/ (interval # Undefined /\ interval >= 60)
PeriodOf(interval) ==
  IF interval \in Presets THEN interval ELSE (interval \div 60) * 60

\* C17: a job that was scheduled for an interval fires at successive times exactly
\* one period apart, and an interval without a cadence is never scheduled.
C17_CadenceMapping ==
  timer.state = "running" =>
    /\ HasCadence(timer.interval)
    /\ \A g \in timer.gaps : g = PeriodOf(timer.interval)

----------------------------------------------------------------------------
(* Specification of the poller running for ever on a store that is written    *)
(* finitely often, every fetch succeeding: the poll job keeps firing and      *)
(* every pending continuation runs.                                           *)

InitLive ==
  /\ \E d \in InitDbValues : Started(d, 0)
  /\ calc = NoCalc

NextLive ==
  \/ SetSetting
  \/ SetWebsite
  \/ PollFetchOk
  \/ PollApply

SpecLive ==
  /\ InitLive
  /\ [][NextLive]_vars
  /\ WF_vars(PollFetchOk)
  /\ WF_vars(PollApply)

\* The task table holds exactly the eligible targets of the stored configuration.
Converged == LiveIdentities = EligibleTargets(findAllWebsites(db))

\* C18: once the stored configuration has stopped changing, the task table
\* eventually equals its eligible target set and stays equal to it.
C18_EventualConvergence == <>[]Converged

----------------------------------------------------------------------------
(* Specification of a task that fires for ever on a stored, enabled website:  *)
(* probes may fail until the clock reaches MaxTime and succeed from then on,  *)
(* every collaborator call succeeds, every await completes.                   *)

\* The record of a new tick of job j.
NewTick(j) ==
  [site |-> jobs[j].website.id,
   url |-> jobs[j].website.url,
   projectId |-> jobs[j].project.projectId,
   job |-> j,
   pc |-> "guardSite",
   probe |-> "none",
   overlap |-> Busy(jobs[j].website.id),
   prev |-> lastProbe[jobs[j].website.id],
   openBefore |-> Cardinality(OpenAlerts(alerts, jobs[j].website.id)),
   fault |-> FALSE,
   nChecks |-> 0, nPerf |-> 0, nCreated |-> 0, nClosed |-> 0, nEmails |-> 0,
   openAfter |-> 0]

TicksInFlight == {k \in 1..Len(ticks) : InFlight(ticks[k])}

\* Job j fires again and again: at most slots ticks are in flight, the record of
\* a tick that has ended is dropped for the new one, and the job waits for the
\* retention delete while the Check or PerformanceMetric table holds rows.
FireAgain(j, slots) ==
  /\ alive
  /\ jobs[j].running
  /\ checks = <<>> /\ metrics = <<>>
  /\ IF Len(ticks) < slots
     THEN ticks' = Append(ticks, NewTick(j))
     ELSE /\ TicksInFlight # 1..Len(ticks)
          /\ LET k == CHOOSE n \in 1..Len(ticks) :
                        /\ ~InFlight(ticks[n])
                        /\ \A m \in 1..(n - 1) : InFlight(ticks[m])
             IN ticks' = [ticks EXCEPT ![k] = NewTick(j)]
  /\ UNCHANGED <<db, alive, checks, metrics, alerts, emails, faults, lastProbe>>
  /\ TickFrame

\* The job fires after its previous tick has ended.
FireTickAgain == \E j \in 1..Len(jobs) : FireAgain(j, 1)

\* The job fires whether or not its previous tick has ended.
FireTickOverlap == \E j \in 1..Len(jobs) : FireAgain(j, MaxInFlight)

\* The probe of a website that is down until the clock reaches MaxTime and up
\* from then on.
TickProbeUp(i) ==
  /\ alive /\ ticks[i].pc = "probe"
  /\ \E outcome \in (IF now < MaxTime /\ Len(alerts) < MaxAlerts
                     THEN {"ok", "http", "error"} ELSE {"ok"}) :
       Goto(i, [ticks[i] EXCEPT !.probe = outcome],
            IF outcome = "error" THEN "cSite" ELSE "check")
  /\ UNCHANGED <<db, alive, checks, metrics, alerts, emails, faults>>
  /\ TickFrame

\* The next step of tick i.
TickStepUp(i) ==
  /\ i \in 1..Len(ticks)
  /\ \/ TickGuardSite(i)
     \/ TickGuardSetting(i)
     \/ TickProbeUp(i)
     \/ TickCheck(i)
     \/ TickPerf(i)
     \/ TickUpdateProject(i)
     \/ TickResolve(i)
     \/ TickFindAlert(i)
     \/ TickCreateAlert(i)
     \/ TickEmail(i)
     \/ CatchGuardSite(i)
     \/ CatchCheck(i)
     \/ CatchFindAlert(i)
     \/ CatchCreateAlert(i)
     \/ CatchEmail(i)

\* The uptime job's prisma.check.deleteMany({}) and
\* prisma.performanceMetric.deleteMany({}) empty the two tables.
Retention ==
  /\ alive
  /\ checks # <<>> \/ metrics # <<>>
  /\ checks' = <<>>
  /\ metrics' = <<>>
  /\ UNCHANGED <<db, dbChanges, alive, schedVars, ticks, alerts, emails, faults, lastProbe,
                 faultBudget, now, aggVars, calc, timer>>

NextResolve ==
  \/ FireTickAgain
  \/ \E i \in 1..MaxInFlight : TickStepUp(i)
  \/ Advance
  \/ Retention

SpecResolve ==
  /\ Init
  /\ [][NextResolve]_vars
  /\ WF_vars(FireTickAgain)
  /\ \A i \in 1..MaxInFlight : WF_vars(TickStepUp(i))
  /\ WF_vars(Advance)
  /\ WF_vars(Retention)

\* The same with ticks of the task that overlap.
NextResolveOverlap ==
  \/ FireTickOverlap
  \/ \E i \in 1..MaxInFlight : TickStepUp(i)
  \/ Advance
  \/ Retention

SpecResolveOverlap ==
  /\ Init
  /\ [][NextResolveOverlap]_vars
  /\ WF_vars(FireTickOverlap)
  /\ \A i \in 1..MaxInFlight : WF_vars(TickStepUp(i))
  /\ WF_vars(Advance)
  /\ WF_vars(Retention)

\* C20: for a website whose task stays in the table, that is stored and enabled
\* and whose probes succeed from some time on, every open alert is eventually
\* resolved and from then on the website has no open alert.
C20_EventualResolution ==
  <>[](\A w \in WebsiteIds : OpenAlerts(alerts, w) = {})

\* The website is up again, and a tick that found an alert open has resolved it.
C20_Witness ==
  /\ now = MaxTime
  /\ Len(alerts) >= 1
  /\ OpenAlerts(alerts, "w1") = {}
  /\ \E i \in 1..Len(ticks) :
       /\ ticks[i].pc = "done" /\ ticks[i].probe = "ok"
       /\ ticks[i].openBefore >= 1 /\ ticks[i].nClosed >= 1

====
